---- MODULE Spec2Model ----
(***************************************************************************)
(* The bounded story tracker of x8h (src/main.go) and the goroutines that  *)
(* feed, sweep, render and shut it down: the two fetchers started at       *)
(* startup, the ticker goroutine with its errgroup of three tasks,         *)
(* storyLister, storyRemover, changeLogger, errLogger, the HTTP handler    *)
(* and main's shutdown sequence.                                           *)
(***************************************************************************)
EXTENDS Integers, Sequences, FiniteSets, TLC

\* ------------------------------------------------------------------ bounds
\* Capacity of the tracker in the model (the program's humanTrackingLimit is 300).
Capacity == 2
\* Number of list fetches (remote ranking, input file) by the fetchers that
\* succeed in the model; the others fail.
MaxFetches == 2
\* Number of times the wall clock advances in the model.
MaxClock == 1
\* Number of poll intervals that elapse in the specification of the ticks.
MaxTicks == 2

\* --------------------------------------------------------------- constants
frontPageNumArticles == 30
hnPollTime == 60
eightHrs == 8 * 60 * 60
itemFromFile == "file"
changeAdd == "added"
changeRemove == "removed"

IDs == 1..(Capacity + 1)
NoItem == [ID |-> 0, Added |-> 0, From |-> "", DiscussLink |-> <<>>,
           URL |-> <<>>, Domain |-> <<>>]
Min(a, b) == IF a < b THEN a ELSE b
Range(s) == {s[i] : i \in 1..Len(s)}

\* What the remote ranking endpoint can return: nothing, or the first
\* Capacity IDs in order.
TopLists == {<<>>, [i \in 1..Capacity |-> i]}

\* The IDs the input file can hold: none, or the last Capacity IDs in order.
FileLists == {<<>>, [i \in 1..Capacity |-> i + 1]}

\* The wall clock (in seconds) advances by one, eight or nine hours.
Jumps == {60 * 60, eightHrs, 9 * 60 * 60}

\* ------------------------------------------------------------ urlToDomain
\* A string is a sequence of tokens, each standing for a run of characters
\* that the functions below never split: a scheme, "://", "//", a hostname
\* label, ".", a port with its colon, "/", a path segment, "%" (a percent
\* sign that starts no valid escape).
Schemes == {"http", "https"}
WWW == {"www", "www2", "www3"}
Labels == {"www", "example", "com"}
MaxLabels == 3

Concat(ss) == ss[1] \o ss[2] \o ss[3] \o ss[4]

\* The hostnames of at most MaxLabels labels.
Hostnames ==
    UNION {{[i \in 1..(2 * n - 1) |-> IF i % 2 = 1 THEN l[(i + 1) \div 2] ELSE "."] :
              l \in [1..n -> Labels]} : n \in 0..MaxLabels}

\* The links of the model: with a scheme, with "//" only or with neither,
\* with or without a port, with or without a path.
Links ==
    {Concat(<<pre, h, port, path>>) :
        pre \in {<<>>, <<"http", "://">>, <<"https", "://">>, <<"//">>},
        h \in Hostnames,
        port \in {<<>>, <<":8080">>},
        path \in {<<>>, <<"/", "x">>, <<"/", "%">>}}

\* The index of the first token of s from position i on that is in set, or
\* Len(s) + 1.
RECURSIVE IndexFrom(_, _, _)
IndexFrom(s, i, set) ==
    IF i > Len(s) \/ s[i] \in set THEN i ELSE IndexFrom(s, i + 1, set)

\* url.Parse(link) followed by u.Hostname(): the authority is parsed only
\* after "scheme://" or a leading "//"; it ends at the first "/"; Hostname
\* drops the port; a "%" that starts no escape and a leading colon (missing
\* protocol scheme) are parse errors.
urlParseHostname(link) ==
    LET start == IF Len(link) >= 2 /\ link[1] \in Schemes /\ link[2] = "://" THEN 3
                 ELSE IF Len(link) >= 1 /\ link[1] = "//" THEN 2
                 ELSE 0
        stop == IF start = 0 THEN 0 ELSE IndexFrom(link, start, {"/"})
        auth == IF start = 0 THEN <<>> ELSE SubSeq(link, start, stop - 1)
    IN [err |-> \/ \E i \in 1..Len(link) : link[i] = "%"
                \/ Len(link) >= 1 /\ link[1] = ":8080",
        hostname |-> SelectSeq(auth, LAMBDA t : t # ":8080")]

\* strings.Split(s, "."): the parts between the dots; one empty part for the
\* empty string.
RECURSIVE Split(_)
Split(s) ==
    LET d == IndexFrom(s, 1, {"."})
    IN IF d > Len(s) THEN <<s>>
       ELSE <<SubSeq(s, 1, d - 1)>> \o Split(SubSeq(s, d + 1, Len(s)))

\* r.Replace(s) for r := strings.NewReplacer("http://", "", "https://", "",
\* "www.", "", "www2.", "", "www3.", ""): every match is deleted, left to right.
RECURSIVE Replace(_)
Replace(s) ==
    IF s = <<>> THEN <<>>
    ELSE IF Len(s) >= 2 /\ \/ s[1] \in Schemes /\ s[2] = "://"
                           \/ s[1] \in WWW /\ s[2] = "."
    THEN Replace(SubSeq(s, 3, Len(s)))
    ELSE <<s[1]>> \o Replace(Tail(s))

\* urlToDomain(link): the last two parts of the hostname joined by a dot, or
\* the hostname through the replacer when it has fewer than two parts.
urlToDomain(link) ==
    LET u == urlParseHostname(link)
        parts == Split(u.hostname)
        n == Len(parts)
    IN IF u.err THEN [domain |-> <<>>, err |-> TRUE]
       ELSE IF n >= 2
       THEN [domain |-> parts[n - 1] \o <<".">> \o parts[n], err |-> FALSE]
       ELSE [domain |-> Replace(u.hostname), err |-> FALSE]

\* The URL of the story with this ID, at the remote endpoint and in the file.
storyURL(itemID) ==
    CASE itemID = 1 -> <<"https", "://", "www", ".", "example", ".", "com", "/", "x">>
      [] itemID = 2 -> <<"example", ".", "com", "/", "x">>
      [] OTHER -> <<>>

\* ------------------------------------------------------------- limitQueue
\* The construction with a limit one too large.
NewQueueOneMore == [limit |-> Capacity + 1, keys |-> <<>>, store |-> <<>>]

\* queue := &limitQueue{limit: humanTrackingLimit, keys: []int{}, store: map}
NewQueue == [limit |-> Capacity, keys |-> <<>>, store |-> <<>>]

Without(store, id) == [k \in DOMAIN store \ {id} |-> store[k]]

\* limitQueue.add: overwrite in place when present, else append and evict
\* the oldest key (index 0) when the size exceeds the limit.
add(q, it) ==
    IF it.ID \in DOMAIN q.store
    THEN [queue |-> [q EXCEPT !.store[it.ID] = it], removed |-> NoItem]
    ELSE LET ks == Append(q.keys, it.ID)
             st == (it.ID :> it) @@ q.store
         IN IF Len(ks) > q.limit
            THEN [queue |-> [q EXCEPT !.keys = Tail(ks),
                                      !.store = Without(st, Head(ks))],
                  removed |-> st[Head(ks)]]
            ELSE [queue |-> [q EXCEPT !.keys = ks, !.store = st],
                  removed |-> NoItem]

\* limitQueue.remove: delete the key and its store entry; no-op if absent.
remove(q, id) ==
    [q EXCEPT !.keys = SelectSeq(q.keys, LAMBDA k : k # id),
              !.store = Without(q.store, id)]

\* ------------------------------------------------------------------ state
HNFetchers == {"hn0", "hnT"}
FileFetchers == {"file0", "fileT"}
Fetchers == HNFetchers \cup FileFetchers
TickTasks == {"hnT", "fileT", "remover"}
Procs == Fetchers \cup {"remover", "lister", "ticker", "main", "handler"}

VARIABLES
    lq,            \* app.lq: the limitQueue
    lock,          \* holder of app's mutex, or "none"
    pc,            \* position of every goroutine
    todo,          \* per fetcher: the IDs still to fetch and send
    cur,           \* per remote fetcher: the fetched item it is about to send
    fetches,       \* list fetches of the fetchers that succeeded so far
    item,          \* storyLister: the item received from incomingItems
    removedItemIfAny, \* storyLister: what add returned
    topItems,      \* storyRemover: the ranking fetched for this pass
    fileItems,     \* storyRemover: the file IDs fetched for this pass
    visited,       \* storyRemover: store keys the range loop has produced
    rid,           \* storyRemover: the key being removed
    appCancelled,  \* appCtx is cancelled
    egCancelled,   \* the tick's errgroup context is cancelled
    egErr,         \* the errgroup's first error: the failing task, or "nil"
    tickBuf,       \* intervalTicker.C holds a tick
    stopped,       \* intervalTicker.Stop() was called
    nextTick,      \* when intervalTicker is due next
    incomingClosed, \* close(incomingItems) was called
    changeClosed,  \* close(changeCh) was called
    errClosed,     \* close(errCh) was called
    closes,        \* how many times each channel was closed
    stream,        \* the last two events changeLogger received, in order
    observer,      \* history: the IDs an observer replaying the stream holds
    errs,          \* what errLogger received, in order
    now,           \* wall clock, in seconds
    nclock,        \* clock advances so far
    hnTop,         \* what the remote ranking endpoint returns now
    inputFile,     \* the IDs of the items the input file holds now
    crashed,       \* a goroutine panicked: "" or the reason
    arrival,       \* history: IDs present, in order of first insertion
    lastAdd,       \* history: the last call of add
    lastPass       \* history: the current or last pass of storyRemover

queueVars == <<lq, arrival, lastAdd>>
listerVars == <<item, removedItemIfAny>>
removerVars == <<topItems, fileItems, visited, rid, lastPass>>
fetchVars == <<todo, cur, fetches>>
egVars == <<egCancelled, egErr>>
tickerVars == <<tickBuf, stopped, nextTick>>
chanVars == <<incomingClosed, changeClosed, errClosed, closes>>
logVars == <<stream, observer>>
envVars == <<now, nclock, hnTop, inputFile>>

vars == <<lock, pc, appCancelled, crashed, errs, queueVars, listerVars,
          removerVars, fetchVars, egVars, tickerVars, chanVars, logVars,
          envVars>>

\* lastAdd: the item given to add, the queue and the arrival order before the
\* call, the item add returned, the time of the call.
NoAdd == [item |-> NoItem, before |-> NewQueue, arrival |-> <<>>,
          removed |-> NoItem, at |-> 0]

\* lastPass: how far the pass is, the error it returned, the ID sets it
\* fetched, the queue when it took the lock, a record for every item the loop
\* visited, the queue when it returned.
NoPass == [state |-> "none", err |-> "nil", top |-> {}, file |-> {},
           before |-> NewQueue, seen |-> {}, after |-> NewQueue]

Init ==
    /\ lq = NewQueue
    /\ lock = "none"
    /\ pc = [p \in Procs |->
               CASE p \in {"hn0", "file0"} -> "start"
                 [] p = "lister" -> "recv"
                 [] p = "ticker" -> "wait"
                 [] p = "main" -> "stop"
                 [] OTHER -> "idle"]
    /\ todo = [p \in Fetchers |-> <<>>]
    /\ cur = [p \in HNFetchers |-> NoItem]
    /\ fetches = 0
    /\ item = NoItem
    /\ removedItemIfAny = NoItem
    /\ topItems = <<>>
    /\ fileItems = <<>>
    /\ visited = {}
    /\ rid = 0
    /\ appCancelled = FALSE
    /\ egCancelled = FALSE
    /\ egErr = "nil"
    /\ tickBuf = FALSE
    /\ stopped = FALSE
    /\ nextTick = 1 + hnPollTime
    /\ incomingClosed = FALSE
    /\ changeClosed = FALSE
    /\ errClosed = FALSE
    /\ closes = [c \in {"incomingItems", "changeCh", "errCh"} |-> 0]
    /\ stream = <<>>
    /\ observer = {}
    /\ errs = <<>>
    /\ now = 1
    /\ nclock = 0
    /\ hnTop \in TopLists
    /\ inputFile \in FileLists
    /\ crashed = ""
    /\ arrival = <<>>
    /\ lastAdd = NoAdd
    /\ lastPass = NoPass

\* The process is running: no goroutine panicked and main has not returned.
Running == crashed = "" /\ pc["main"] # "end"

\* ctx.Err() != nil for the context goroutine p was given: appCtx for the
\* startup fetchers, the errgroup's context (a child of appCtx) for a tick's tasks.
CtxErr(p) == appCancelled \/ (p \in TickTasks /\ egCancelled)

\* time.Now().Unix(): the clock of the model counts whole seconds.
Unix(t) == t

\* A goroutine panics (a send on a closed channel): the process dies.
Panic(why) ==
    /\ crashed' = why
    /\ UNCHANGED <<lock, pc, appCancelled, errs, queueVars, listerVars,
                   removerVars, fetchVars, egVars, tickerVars, chanVars,
                   logVars, envVars>>

\* A task of the tick's errgroup returns e: the group keeps the first
\* non-nil error and cancels its context on it.
EgReturn(p, e) ==
    /\ egErr' = IF p \in TickTasks /\ e # "nil" /\ egErr = "nil" THEN p ELSE egErr
    /\ egCancelled' = (egCancelled \/ (p \in TickTasks /\ e # "nil"))

\* changeLogger: for c := range changeCh { log.Println(c) }
changeLogger(c) ==
    /\ stream' = IF stream = <<>> THEN <<c>> ELSE <<stream[Len(stream)], c>>
    /\ observer' = IF c.Action = changeAdd
                   THEN observer \cup {c.Item.ID}
                   ELSE observer \ {c.Item.ID}

\* errLogger: for err := range errCh { log.Println(err) }
errLogger(e) == errs' = Append(errs, e)

change(action, it) == [Action |-> action, Item |-> it]

\* ------------------------------------------------------------ the fetchers
\* fetchTopStories: the decoded ranking, truncated to limit.
fetchTopStories(items, limit) == SubSeq(items, 1, Min(Len(items), limit))

\* fetchItem: var it item; decoder.Decode(&it)
fetchItem(itemID) == [NoItem EXCEPT !.ID = itemID, !.URL = storyURL(itemID)]

\* An element of the slice fetchStoriesFromFile decodes.
fileItem(itemID) == [NoItem EXCEPT !.ID = itemID, !.URL = storyURL(itemID)]

\* if it.From == "" { it.From = itemFromFile }
tagFromFile(it) == IF it.From = "" THEN [it EXCEPT !.From = itemFromFile] ELSE it

\* A send that a closed incomingItems lets through.
SendIncomingClosed(p, it) ==
    /\ pc["lister"] = "recv"
    /\ item' = it
    /\ pc' = [pc EXCEPT ![p] = "loop", !["lister"] = "lock"]

\* incomingItems <- it, received by storyLister's range loop.
SendIncoming(p, it) ==
    /\ ~incomingClosed
    /\ pc["lister"] = "recv"
    /\ item' = it
    /\ pc' = [pc EXCEPT ![p] = "loop", !["lister"] = "lock"]

\* topStoriesFetcher: itemIds, err := fetchTopStories(ctx, limit)
topStoriesFetcherStart(p) ==
    /\ Running /\ pc[p] = "start"
    /\ \/ /\ pc' = [pc EXCEPT ![p] = "done"]
          /\ EgReturn(p, "err")
          /\ UNCHANGED <<todo, fetches>>
       \/ /\ ~CtxErr(p) /\ fetches < MaxFetches
          /\ fetches' = fetches + 1
          /\ todo' = [todo EXCEPT ![p] = fetchTopStories(hnTop, frontPageNumArticles)]
          /\ pc' = [pc EXCEPT ![p] = "loop"]
          /\ UNCHANGED egVars
    /\ UNCHANGED <<lock, appCancelled, crashed, errs, queueVars, listerVars,
                   removerVars, cur, tickerVars, chanVars, logVars, envVars>>

\* The loop left at the first item whose fetch fails.
afterItemErrReturn == "done"

\* if err != nil { log.Println(err) } in topStoriesFetcher's loop: where the
\* fetcher is after a failed fetchItem.
afterItemErr == "loop"

\* One iteration of topStoriesFetcher's loop up to the send: the check of
\* appCtx, then fetchItem(ctx, itID), which fails once ctx is cancelled.
topStoriesFetcherLoop(p) ==
    /\ Running /\ pc[p] = "loop"
    /\ IF todo[p] = <<>> \/ appCancelled
       THEN /\ pc' = [pc EXCEPT ![p] = "done"]
            /\ EgReturn(p, "nil")
            /\ UNCHANGED <<todo, cur>>
       ELSE /\ todo' = [todo EXCEPT ![p] = Tail(@)]
            /\ \/ /\ ~CtxErr(p)
                  /\ cur' = [cur EXCEPT ![p] = fetchItem(Head(todo[p]))]
                  /\ pc' = [pc EXCEPT ![p] = "send"]
               \/ /\ pc' = [pc EXCEPT ![p] = afterItemErr]
                  /\ UNCHANGED cur
            /\ UNCHANGED egVars
    /\ UNCHANGED <<lock, appCancelled, crashed, errs, queueVars, listerVars,
                   removerVars, fetches, tickerVars, chanVars, logVars, envVars>>

\* incomingItems <- item
topStoriesFetcherSend(p) ==
    /\ Running /\ pc[p] = "send"
    /\ SendIncoming(p, cur[p])
    /\ cur' = [cur EXCEPT ![p] = NoItem]
    /\ UNCHANGED <<lock, appCancelled, crashed, errs, queueVars,
                   removedItemIfAny, removerVars, todo, fetches, egVars,
                   tickerVars, chanVars, logVars, envVars>>

\* serverInputsToUserFetcher: items, err := fetchStoriesFromFile(inputFilePath)
serverInputsToUserFetcherStart(p) ==
    /\ Running /\ pc[p] = "start"
    /\ \/ /\ pc' = [pc EXCEPT ![p] = "done"]
          /\ EgReturn(p, "err")
          /\ UNCHANGED <<todo, fetches>>
       \/ /\ fetches < MaxFetches
          /\ fetches' = fetches + 1
          /\ todo' = [todo EXCEPT ![p] = inputFile]
          /\ pc' = [pc EXCEPT ![p] = "loop"]
          /\ UNCHANGED egVars
    /\ UNCHANGED <<lock, appCancelled, crashed, errs, queueVars, listerVars,
                   removerVars, cur, tickerVars, chanVars, logVars, envVars>>

\* One iteration of serverInputsToUserFetcher's loop: tag, then send.
serverInputsToUserFetcherSend(p) ==
    /\ Running /\ pc[p] = "loop" /\ todo[p] # <<>>
    /\ SendIncoming(p, tagFromFile(fileItem(Head(todo[p]))))
    /\ todo' = [todo EXCEPT ![p] = Tail(@)]
    /\ UNCHANGED <<lock, appCancelled, crashed, errs, queueVars,
                   removedItemIfAny, removerVars, cur, fetches, egVars,
                   tickerVars, chanVars, logVars, envVars>>

\* serverInputsToUserFetcher: return nil after the loop.
serverInputsToUserFetcherReturn(p) ==
    /\ Running /\ pc[p] = "loop" /\ todo[p] = <<>>
    /\ pc' = [pc EXCEPT ![p] = "done"]
    /\ EgReturn(p, "nil")
    /\ UNCHANGED <<lock, appCancelled, crashed, errs, queueVars, listerVars,
                   removerVars, fetchVars, tickerVars, chanVars, logVars,
                   envVars>>

\* A fetcher is at its send on incomingItems and the channel is closed.
FetcherSendPanic(p) ==
    /\ Running /\ incomingClosed
    /\ \/ p \in HNFetchers /\ pc[p] = "send"
       \/ p \in FileFetchers /\ pc[p] = "loop" /\ todo[p] # <<>>
    /\ Panic("send on closed incomingItems")

\* ------------------------------------------------------------- storyLister
\* if item.Added == 0 { item.Added = unixTime(time.Now().Unix()) }
setAdded(it, t) == IF it.Added = 0 THEN [it EXCEPT !.Added = Unix(t)] ELSE it

\* if item.From != itemFromFile { item.DiscussLink = fmt.Sprintf(hnPostLink, item.ID) }
setDiscussLink(it) ==
    IF it.From # itemFromFile
    THEN [it EXCEPT !.DiscussLink = <<"hnPostLink", it.ID>>]
    ELSE it

\* urlToDomain over every link an item of the model carries, tabulated.
domainOf ==
    [l \in Links \cup {storyURL(i) : i \in IDs \cup {0}} |-> urlToDomain(l)]

\* if item.Domain == "" { domain, err := urlToDomain(item.URL); if err == nil
\* { item.Domain = domain } else { log.Println(err) } }
setDomain(it) ==
    IF it.Domain = <<>> /\ ~domainOf[it.URL].err
    THEN [it EXCEPT !.Domain = domainOf[it.URL].domain]
    ELSE it

\* The normalisation storyLister applies before add.
normalize(it, t) == setDiscussLink(setDomain(setAdded(it, t)))

\* History: the IDs present in order of first insertion, kept from what the
\* caller of add observes (the ID added, the item returned as removed).
Arrived(arr, id, gone) ==
    LET a == IF id \in Range(arr) THEN arr ELSE Append(arr, id)
    IN SelectSeq(a, LAMBDA k : k # gone)

\* for item := range incomingItems: the channel is closed, the loop ends.
storyListerExit ==
    /\ Running /\ pc["lister"] = "recv" /\ incomingClosed
    /\ pc' = [pc EXCEPT !["lister"] = "done"]
    /\ UNCHANGED <<lock, appCancelled, crashed, errs, queueVars, listerVars,
                   removerVars, fetchVars, egVars, tickerVars, chanVars,
                   logVars, envVars>>

\* app.Lock()
storyListerLock ==
    /\ Running /\ pc["lister"] = "lock" /\ lock = "none"
    /\ lock' = "lister"
    /\ pc' = [pc EXCEPT !["lister"] = "add"]
    /\ UNCHANGED <<appCancelled, crashed, errs, queueVars, listerVars,
                   removerVars, fetchVars, egVars, tickerVars, chanVars,
                   logVars, envVars>>

\* The removed event carrying the item just added instead of the evicted one.
removedChangeOfAdded(removed, it) == change(changeRemove, it)

\* The event storyLister publishes first when add removed an item.
removedChange(removed, it) == change(changeRemove, removed)

\* The added event published with the action of a removal.
addedChangeAsRemoved(removed, it) == change(changeRemove, it)

\* The event storyLister publishes for the item it added.
addedChange(removed, it) == change(changeAdd, it)

\* The test of removedItemIfAny inverted.
firstSendInverted(removed) == IF removed = NoItem THEN "sendRemoved" ELSE "sendAdded"

\* The removed event never published.
firstSendSkipped(removed) == "sendAdded"

\* if removedItemIfAny != nil: the send storyLister does first after add.
firstSend(removed) == IF removed # NoItem THEN "sendRemoved" ELSE "sendAdded"

\* Normalise the item, then removedItemIfAny := app.lq.add(item).
storyListerAdd ==
    /\ Running /\ pc["lister"] = "add"
    /\ \E it \in {normalize(item, now)} : \E r \in {add(lq, it)} :
          /\ item' = it
          /\ lq' = r.queue
          /\ removedItemIfAny' = r.removed
          /\ arrival' = Arrived(arrival, it.ID, r.removed.ID)
          /\ lastAdd' = [item |-> it, before |-> lq, arrival |-> arrival,
                         removed |-> r.removed, at |-> now]
          /\ pc' = [pc EXCEPT !["lister"] = firstSend(r.removed)]
    /\ UNCHANGED <<lock, appCancelled, crashed, errs, removerVars, fetchVars,
                   egVars, tickerVars, chanVars, logVars, envVars>>

\* changeCh <- change{Action: changeRemove, Item: removedItemIfAny}
storyListerSendRemoved ==
    /\ Running /\ pc["lister"] = "sendRemoved" /\ ~changeClosed
    /\ changeLogger(removedChange(removedItemIfAny, item))
    /\ pc' = [pc EXCEPT !["lister"] = "sendAdded"]
    /\ UNCHANGED <<lock, appCancelled, crashed, errs, queueVars, listerVars,
                   removerVars, fetchVars, egVars, tickerVars, chanVars,
                   envVars>>

\* changeCh <- change{Action: changeAdd, Item: item}, then the deferred app.Unlock()
storyListerSendAdded ==
    /\ Running /\ pc["lister"] = "sendAdded" /\ ~changeClosed
    /\ changeLogger(addedChange(removedItemIfAny, item))
    /\ lock' = "none"
    /\ pc' = [pc EXCEPT !["lister"] = "recv"]
    /\ item' = NoItem
    /\ removedItemIfAny' = NoItem
    /\ UNCHANGED <<appCancelled, crashed, errs, queueVars, removerVars,
                   fetchVars, egVars, tickerVars, chanVars, envVars>>

\* storyLister is at a send on changeCh and the channel is closed.
storyListerSendPanic ==
    /\ Running /\ changeClosed
    /\ pc["lister"] \in {"sendRemoved", "sendAdded"}
    /\ Panic("storyLister: send on closed changeCh")

\* ------------------------------------------------------------ storyRemover
\* The two cases of the switch exchanged.
stillAtTopSwapped(id, it, top, file) ==
    IF it.From = itemFromFile THEN id \in Range(top) ELSE id \in Range(file)

\* The switch on it.From: file items are looked up in fileItems, all others
\* in topItems.
stillAtTop(id, it, top, file) ==
    IF it.From = itemFromFile THEN id \in Range(file) ELSE id \in Range(top)

\* The comparison with eightHrs not strict.
staleAtEight(it, t) == t - it.Added >= eightHrs

\* time.Since(time.Unix(int64(it.Added), 0)).Seconds() > eightHrs
stale(it, t) == t - it.Added > eightHrs

\* !stillAtTop && time.Since(...).Seconds() > eightHrs
shouldRemove(id, it, top, file, t) == ~stillAtTop(id, it, top, file) /\ stale(it, t)

\* The check made on appCtx, as topStoriesFetcher's loop does.
removerAppCtxErr == appCancelled

\* The check at the head of storyRemover's loop: ctx.Err() != nil
removerCtxErr == CtxErr("remover")

\* The two fetches ignoring their errors.
afterFetchIgnoringErr(err) == "lock"

\* if err != nil { return err } after each of storyRemover's two fetches:
\* where storyRemover is next.
afterFetch(err) == IF err # "nil" THEN "done" ELSE "lock"

\* topItems, err := fetchTopStories(...); fileItems, err := fetchStoriesFromFile(...)
storyRemoverFetch ==
    /\ Running /\ pc["remover"] = "start"
    /\ \/ /\ pc' = [pc EXCEPT !["remover"] = afterFetch("err")]
          /\ EgReturn("remover", "err")
          /\ lastPass' = [NoPass EXCEPT !.state = "failed", !.err = "err"]
          /\ UNCHANGED <<topItems, fileItems>>
       \/ /\ ~CtxErr("remover")
          /\ topItems' = fetchTopStories(hnTop, frontPageNumArticles)
          /\ fileItems' = inputFile
          /\ pc' = [pc EXCEPT !["remover"] = afterFetch("nil")]
          /\ lastPass' = [NoPass EXCEPT !.state = "fetched"]
          /\ UNCHANGED egVars
    /\ UNCHANGED <<lock, appCancelled, crashed, errs, queueVars, listerVars,
                   visited, rid, fetchVars, tickerVars, chanVars, logVars,
                   envVars>>

\* app.Lock(); defer app.Unlock()
storyRemoverLock ==
    /\ Running /\ pc["remover"] = "lock" /\ lock = "none"
    /\ lock' = "remover"
    /\ visited' = {}
    /\ pc' = [pc EXCEPT !["remover"] = "loop"]
    /\ lastPass' = [state |-> "sweeping", err |-> "nil",
                    top |-> Range(topItems), file |-> Range(fileItems),
                    before |-> lq, seen |-> {}, after |-> lq]
    /\ UNCHANGED <<appCancelled, crashed, errs, queueVars, listerVars,
                   topItems, fileItems, rid, fetchVars, egVars, tickerVars,
                   chanVars, logVars, envVars>>

\* A return that leaves the lock with storyRemover.
unlockOnReturnMissing == "remover"

\* defer app.Unlock(): whoever returns gives the lock back.
unlockOnReturn == "none"

\* return nil out of the sweep, with the deferred app.Unlock().
storyRemoverReturn(how) ==
    /\ lock' = unlockOnReturn
    /\ pc' = [pc EXCEPT !["remover"] = "done"]
    /\ EgReturn("remover", "nil")
    /\ lastPass' = [lastPass EXCEPT !.state = how, !.after = lq]
    /\ topItems' = <<>>
    /\ fileItems' = <<>>
    /\ visited' = {}
    /\ UNCHANGED rid

\* One iteration of for id, it := range app.lq.store up to the send: the
\* check of ctx, the membership test, the staleness test.
storyRemoverLoop ==
    /\ Running /\ pc["remover"] = "loop"
    /\ IF DOMAIN lq.store \subseteq visited
       THEN storyRemoverReturn("complete")
       ELSE IF removerCtxErr
       THEN storyRemoverReturn("cancelled")
       ELSE \E id \in DOMAIN lq.store \ visited :
              LET it == lq.store[id]
                  rm == shouldRemove(id, it, topItems, fileItems, now)
              IN /\ visited' = visited \cup {id}
                 /\ rid' = IF rm THEN id ELSE rid
                 /\ pc' = [pc EXCEPT !["remover"] = IF rm THEN "send" ELSE "loop"]
                 /\ lastPass' = [lastPass EXCEPT !.seen =
                                   @ \cup {[id |-> id, at |-> now, removed |-> rm,
                                            cancelled |-> CtxErr("remover")]}]
                 /\ UNCHANGED <<lock, topItems, fileItems, egVars>>
    /\ UNCHANGED <<appCancelled, crashed, errs, queueVars, listerVars,
                   fetchVars, tickerVars, chanVars, logVars, envVars>>

\* A critical section per item: the lock released after each removal.
lockAfterSendReleased == "none"

\* defer app.Unlock(): the lock stays with storyRemover from app.Lock() to
\* its return, across every send and remove.
lockAfterSend == "remover"

\* changeCh <- change{Action: changeRemove, Item: app.lq.store[id]}; app.lq.remove(id)
storyRemoverSend ==
    /\ Running /\ pc["remover"] = "send" /\ ~changeClosed
    /\ changeLogger(change(changeRemove, lq.store[rid]))
    /\ lq' = remove(lq, rid)
    /\ arrival' = SelectSeq(arrival, LAMBDA k : k # rid)
    /\ rid' = 0
    /\ lock' = lockAfterSend
    /\ pc' = [pc EXCEPT !["remover"] = "loop"]
    /\ UNCHANGED <<appCancelled, crashed, errs, lastAdd, listerVars,
                   topItems, fileItems, visited, lastPass, fetchVars, egVars,
                   tickerVars, chanVars, envVars>>

\* storyRemover is at its send on changeCh and the channel is closed.
storyRemoverSendPanic ==
    /\ Running /\ changeClosed /\ pc["remover"] = "send"
    /\ Panic("storyRemover: send on closed changeCh")

\* ------------------------------------------------------ the ticker goroutine
\* The runtime delivers a tick into intervalTicker.C (capacity 1) when the
\* interval has elapsed, unless the ticker is stopped or the buffer is full.
intervalTickerFire ==
    /\ Running /\ ~stopped /\ ~tickBuf
    /\ now >= nextTick
    /\ nextTick' = now + hnPollTime
    /\ tickBuf' = TRUE
    /\ UNCHANGED <<lock, pc, appCancelled, crashed, errs, queueVars,
                   listerVars, removerVars, fetchVars, egVars, stopped,
                   chanVars, logVars, envVars>>

\* for range intervalTicker.C: eg, ctx := errgroup.WithContext(appCtx) and
\* the three eg.Go calls.
tickerStart ==
    /\ Running /\ pc["ticker"] = "wait" /\ tickBuf
    /\ tickBuf' = FALSE
    /\ egErr' = "nil"
    /\ egCancelled' = FALSE
    /\ pc' = [p \in Procs |->
                IF p \in TickTasks THEN "start"
                ELSE IF p = "ticker" THEN "egwait" ELSE pc[p]]
    /\ UNCHANGED <<lock, appCancelled, crashed, errs, queueVars, listerVars,
                   removerVars, fetchVars, stopped, nextTick, chanVars,
                   logVars, envVars>>

\* A wait that ends with the first task that returns.
egWaitFirst == \E p \in TickTasks : pc[p] = "done"

\* eg.Wait() blocks until every function started with eg.Go has returned.
egWaitDone == \A p \in TickTasks : pc[p] = "done"

\* err := eg.Wait(): returns once the three tasks have returned, cancels the
\* group's context and yields the first error.
tickerWait ==
    /\ Running /\ pc["ticker"] = "egwait"
    /\ egWaitDone
    /\ egCancelled' = TRUE
    /\ pc' = [p \in Procs |->
                IF p \in TickTasks THEN "idle"
                ELSE IF p = "ticker"
                     THEN (IF egErr # "nil" THEN "report" ELSE "wait")
                     ELSE pc[p]]
    /\ lastPass' = NoPass
    /\ UNCHANGED <<lock, appCancelled, crashed, errs, queueVars, listerVars,
                   topItems, fileItems, visited, rid, fetchVars, egErr,
                   tickerVars, chanVars, logVars, envVars>>

\* The loop left after an error was reported.
afterReportReturn == "done"

\* The end of the body of for range intervalTicker.C: where the ticker
\* goroutine is after it has reported the error.
afterReport == "wait"

\* errCh <- appErr{err: err, level: logWarning}
tickerReport ==
    /\ Running /\ pc["ticker"] = "report" /\ ~errClosed
    /\ errLogger(egErr)
    /\ pc' = [pc EXCEPT !["ticker"] = afterReport]
    /\ UNCHANGED <<lock, appCancelled, crashed, queueVars, listerVars,
                   removerVars, fetchVars, egVars, tickerVars, chanVars,
                   logVars, envVars>>

\* The ticker goroutine is at its send on errCh and the channel is closed.
tickerReportPanic ==
    /\ Running /\ errClosed /\ pc["ticker"] = "report"
    /\ Panic("ticker: send on closed errCh")

\* ------------------------------------------------------------ HTTP handler
\* app.Lock(); defer app.Unlock() in the handler of "/", while the server
\* accepts requests.
handlerLock ==
    /\ Running /\ pc["handler"] = "idle" /\ pc["main"] = "stop" /\ lock = "none"
    /\ lock' = "handler"
    /\ pc' = [pc EXCEPT !["handler"] = "render"]
    /\ UNCHANGED <<appCancelled, crashed, errs, queueVars, listerVars,
                   removerVars, fetchVars, egVars, tickerVars, chanVars,
                   logVars, envVars>>

\* data["Data"] = app.lq.store; tmpl.Execute(w, data); the deferred Unlock.
handlerRender ==
    /\ Running /\ pc["handler"] = "render"
    /\ lock' = "none"
    /\ pc' = [pc EXCEPT !["handler"] = "idle"]
    /\ UNCHANGED <<appCancelled, crashed, errs, queueVars, listerVars,
                   removerVars, fetchVars, egVars, tickerVars, chanVars,
                   logVars, envVars>>

\* -------------------------------------------------------------------- main
mainVars == <<lock, crashed, errs, queueVars, listerVars, removerVars,
              fetchVars, egVars, tickBuf, nextTick, logVars, envVars>>

\* sig := <-stop; srv.Shutdown(ctx)
mainSignal ==
    /\ Running /\ pc["main"] = "stop"
    /\ pc' = [pc EXCEPT !["main"] = "cancel"]
    /\ UNCHANGED <<mainVars, appCancelled, stopped, chanVars>>

\* cleanup: cancel()
cleanupCancel ==
    /\ Running /\ pc["main"] = "cancel"
    /\ appCancelled' = TRUE
    /\ pc' = [pc EXCEPT !["main"] = "tickerStop"]
    /\ UNCHANGED <<mainVars, stopped, chanVars>>

\* cleanup: intervalTicker.Stop()
cleanupTickerStop ==
    /\ Running /\ pc["main"] = "tickerStop"
    /\ stopped' = TRUE
    /\ pc' = [pc EXCEPT !["main"] = "closeIncoming"]
    /\ UNCHANGED <<mainVars, appCancelled, chanVars>>

\* cleanup: close(incomingItems)
cleanupCloseIncoming ==
    /\ Running /\ pc["main"] = "closeIncoming"
    /\ incomingClosed' = TRUE
    /\ closes' = [closes EXCEPT !["incomingItems"] = @ + 1]
    /\ pc' = [pc EXCEPT !["main"] = "closeChange"]
    /\ UNCHANGED <<mainVars, appCancelled, stopped, changeClosed, errClosed>>

\* cleanup: close(changeCh)
cleanupCloseChange ==
    /\ Running /\ pc["main"] = "closeChange"
    /\ changeClosed' = TRUE
    /\ closes' = [closes EXCEPT !["changeCh"] = @ + 1]
    /\ pc' = [pc EXCEPT !["main"] = "closeErr"]
    /\ UNCHANGED <<mainVars, appCancelled, stopped, incomingClosed, errClosed>>

\* cleanup: close(errCh)
cleanupCloseErr ==
    /\ Running /\ pc["main"] = "closeErr"
    /\ errClosed' = TRUE
    /\ closes' = [closes EXCEPT !["errCh"] = @ + 1]
    /\ pc' = [pc EXCEPT !["main"] = "dump"]
    /\ UNCHANGED <<mainVars, appCancelled, stopped, incomingClosed, changeClosed>>

\* stories, _ := json.Marshal(app.lq.store); ioutil.WriteFile(...); main returns.
\* main is inside json.Marshal while pc["main"] = "dump".
mainDump ==
    /\ Running /\ pc["main"] = "dump"
    /\ pc' = [pc EXCEPT !["main"] = "end"]
    /\ UNCHANGED <<mainVars, appCancelled, stopped, chanVars>>

\* ------------------------------------------------- clock and environment
\* Time passes by d seconds; meanwhile the remote ranking becomes top and the
\* input file's content becomes file.
Elapse(d, top, file) ==
    /\ Running /\ nclock < MaxClock
    /\ now' = now + d
    /\ nclock' = nclock + 1
    /\ hnTop' = top
    /\ inputFile' = file
    /\ UNCHANGED <<lock, pc, appCancelled, crashed, errs, queueVars,
                   listerVars, removerVars, fetchVars, egVars, tickerVars,
                   chanVars, logVars>>

Clock == \E d \in Jumps, top \in TopLists, file \in FileLists : Elapse(d, top, file)

\* Nine hours pass and both sources become empty.
NineHours == Elapse(9 * 60 * 60, <<>>, <<>>)

\* ------------------------------------------------------------ the program
Fetch ==
    \/ \E p \in HNFetchers :
          \/ topStoriesFetcherStart(p)
          \/ topStoriesFetcherLoop(p)
          \/ topStoriesFetcherSend(p)
    \/ \E p \in FileFetchers :
          \/ serverInputsToUserFetcherStart(p)
          \/ serverInputsToUserFetcherSend(p)
          \/ serverInputsToUserFetcherReturn(p)

Ingest ==
    \/ storyListerLock
    \/ storyListerAdd
    \/ storyListerSendRemoved
    \/ storyListerSendAdded

Reconcile ==
    \/ storyRemoverFetch
    \/ storyRemoverLock
    \/ storyRemoverLoop
    \/ storyRemoverSend

Schedule ==
    \/ intervalTickerFire
    \/ tickerStart
    \/ tickerWait
    \/ tickerReport

Serve ==
    \/ handlerLock
    \/ handlerRender

Shutdown ==
    \/ mainSignal
    \/ cleanupCancel
    \/ cleanupTickerStop
    \/ cleanupCloseIncoming
    \/ cleanupCloseChange
    \/ cleanupCloseErr
    \/ mainDump
    \/ storyListerExit
    \/ \E p \in Fetchers : FetcherSendPanic(p)
    \/ storyListerSendPanic
    \/ storyRemoverSendPanic
    \/ tickerReportPanic

\* The process between startup and the shutdown signal, with no request served.
Next == Fetch \/ Ingest \/ Reconcile \/ Schedule \/ Clock

Spec == Init /\ [][Next]_vars

\* The whole process, requests and shutdown included, in the environment
\* where both sources start full and are empty nine hours later.
InitFull ==
    /\ Init
    /\ hnTop = [i \in 1..Capacity |-> i]
    /\ inputFile = [i \in 1..Capacity |-> i + 1]

NextShutdown ==
    Fetch \/ Ingest \/ Reconcile \/ Schedule \/ Serve \/ Shutdown \/ NineHours

SpecShutdown == InitFull /\ [][NextShutdown]_vars

\* One poll interval passes; the sources stay as they are.
PollTimeElapses ==
    /\ Running /\ now < 1 + MaxTicks * hnPollTime
    /\ now' = now + hnPollTime
    /\ UNCHANGED <<lock, pc, appCancelled, crashed, errs, queueVars,
                   listerVars, removerVars, fetchVars, egVars, tickerVars,
                   chanVars, logVars, nclock, hnTop, inputFile>>

\* The process over several poll intervals, with a full remote ranking and
\* an empty input file: the goroutines take their steps in any order and a
\* fetch may fail every time.
InitTicks ==
    /\ Init
    /\ hnTop = [i \in 1..Capacity |-> i]
    /\ inputFile = <<>>

\* The steps of the goroutines.
CoreTicks ==
    \/ \E p \in HNFetchers :
          \/ topStoriesFetcherStart(p)
          \/ topStoriesFetcherLoop(p)
          \/ topStoriesFetcherSend(p)
    \/ \E p \in FileFetchers :
          \/ serverInputsToUserFetcherStart(p)
          \/ serverInputsToUserFetcherReturn(p)
    \/ storyListerLock
    \/ storyListerAdd
    \/ storyListerSendAdded
    \/ storyRemoverFetch
    \/ storyRemoverLock
    \/ storyRemoverLoop
    \/ Schedule

NextTicks == CoreTicks \/ PollTimeElapses

SpecTicks == InitTicks /\ [][NextTicks]_vars

\* The whole life of the process, shutdown included, with an empty remote
\* ranking and a full input file that is empty nine hours later. Every
\* goroutine that stays able to take a step takes one; main is free to wait
\* for its signal for ever.
InitFile ==
    /\ Init
    /\ hnTop = <<>>
    /\ inputFile = [i \in 1..Capacity |-> i + 1]

FetchersFile ==
    \/ \E p \in HNFetchers :
          \/ topStoriesFetcherStart(p)
          \/ topStoriesFetcherLoop(p)
    \/ \E p \in FileFetchers :
          \/ serverInputsToUserFetcherStart(p)
          \/ serverInputsToUserFetcherSend(p)
          \/ serverInputsToUserFetcherReturn(p)
    \/ \E p \in Fetchers : FetcherSendPanic(p)

ListerFile ==
    \/ storyListerLock
    \/ storyListerAdd
    \/ storyListerSendAdded
    \/ storyListerExit
    \/ storyListerSendPanic

RemoverFile == Reconcile \/ storyRemoverSendPanic

TickerFile == Schedule \/ tickerReportPanic

MainFile ==
    \/ mainSignal
    \/ cleanupCancel
    \/ cleanupTickerStop
    \/ cleanupCloseIncoming
    \/ cleanupCloseChange
    \/ cleanupCloseErr
    \/ mainDump

NextFile ==
    FetchersFile \/ ListerFile \/ RemoverFile \/ TickerFile \/ MainFile
       \/ NineHours

FairFile ==
    /\ WF_vars(FetchersFile)
    /\ WF_vars(ListerFile)
    /\ WF_vars(RemoverFile)
    /\ WF_vars(TickerFile)

SpecFile == InitFile /\ [][NextFile]_vars /\ FairFile

\* The process before the shutdown signal, requests included, with both
\* sources full at startup and empty nine hours later. A goroutine that
\* holds the lock and stays able to take a step takes one; requests arrive
\* or not.
CoreLive == Fetch \/ Ingest \/ Reconcile \/ Schedule \/ Serve

NextLive == CoreLive \/ NineHours

FairLive ==
    /\ WF_vars(Ingest)
    /\ WF_vars(Reconcile)
    /\ WF_vars(handlerRender)

SpecLive == InitFull /\ [][NextLive]_vars /\ FairLive

\* storyLister alone, having received an item with any link of Links as its
\* URL: the normalisation, the add and the added event.
InitDomain ==
    /\ lq = NewQueue
    /\ lock = "none"
    /\ pc = [p \in Procs |->
               CASE p = "lister" -> "lock"
                 [] p = "ticker" -> "wait"
                 [] p = "main" -> "stop"
                 [] p \in {"hn0", "file0"} -> "done"
                 [] OTHER -> "idle"]
    /\ todo = [p \in Fetchers |-> <<>>]
    /\ cur = [p \in HNFetchers |-> NoItem]
    /\ fetches = 0
    /\ item \in {[NoItem EXCEPT !.ID = 1, !.URL = l] : l \in Links}
    /\ removedItemIfAny = NoItem
    /\ topItems = <<>>
    /\ fileItems = <<>>
    /\ visited = {}
    /\ rid = 0
    /\ appCancelled = FALSE
    /\ egCancelled = FALSE
    /\ egErr = "nil"
    /\ tickBuf = FALSE
    /\ stopped = FALSE
    /\ nextTick = 1 + hnPollTime
    /\ incomingClosed = FALSE
    /\ changeClosed = FALSE
    /\ errClosed = FALSE
    /\ closes = [c \in {"incomingItems", "changeCh", "errCh"} |-> 0]
    /\ stream = <<>>
    /\ observer = {}
    /\ errs = <<>>
    /\ now = 1
    /\ nclock = 0
    /\ hnTop = <<>>
    /\ inputFile = <<>>
    /\ crashed = ""
    /\ arrival = <<>>
    /\ lastAdd = NoAdd
    /\ lastPass = NoPass

NextDomain == storyListerLock \/ storyListerAdd \/ storyListerSendAdded

SpecDomain == InitDomain /\ [][NextDomain]_vars

\* ------------------------------------------------------------- properties
\* storyLister has called add and still holds the lock: lq is the queue that
\* call left.
AfterAdd == pc["lister"] \in {"sendRemoved", "sendAdded"}

\* storyLister is not between add and its last send.
ListerIdle == pc["lister"] \in {"recv", "lock", "add", "done"}

\* The last add was given an ID the queue already held.
IsUpdate == lastAdd.item.ID \in DOMAIN lastAdd.before.store

NoDuplicates(s) == \A i, j \in 1..Len(s) : s[i] = s[j] => i = j

\* Spec section 4.4, step 3: file-sourced items are matched against the file
\* list of the pass, all others against its remote ranking.
StillCanonical(it, pass) ==
    IF it.From = itemFromFile THEN it.ID \in pass.file ELSE it.ID \in pass.top

\* The age storyRemover saw for the item of visit v.
Age(v, it) == v.at - it.Added

Gone(pass) == {v.id : v \in {w \in pass.seen : w.removed}}

\* C1: after every add and every remove, from the empty tracker on, the
\* number of keys equals the number of store entries, that number is at most
\* the capacity, keys holds no ID twice, and keys and store hold the same IDs.
C1_CapacityInvariant ==
    /\ Len(lq.keys) = Cardinality(DOMAIN lq.store)
    /\ Len(lq.keys) <= Capacity
    /\ NoDuplicates(lq.keys)
    /\ Range(lq.keys) = DOMAIN lq.store

\* An add on the full tracker evicted an item, and storyRemover then removed
\* one.
C1_Witness ==
    /\ Len(lastAdd.before.keys) = Capacity
    /\ lastAdd.removed # NoItem
    /\ \E v \in lastPass.seen : v.removed /\ v.id \notin DOMAIN lq.store

\* C2: the eviction order is the order of first insertion: the item add
\* evicts and returns, and storyLister publishes as removed, is the stored
\* item whose ID was first inserted earliest among those present, and adding
\* an ID again leaves its place in that order alone (with capacity 2, adding
\* 3 to <<1, 2>> evicts 1 and leaves {2, 3}).
C2_FIFOEviction ==
    /\ lq.keys = arrival
    /\ lastAdd.removed # NoItem =>
          /\ lastAdd.item.ID \notin Range(lastAdd.arrival)
          /\ lastAdd.removed = lastAdd.before.store[Head(lastAdd.arrival)]
          /\ lastAdd.removed.ID = Head(lastAdd.arrival)
    /\ (AfterAdd /\ IsUpdate) => arrival = lastAdd.arrival
    /\ (pc["lister"] = "sendAdded" /\ removedItemIfAny # NoItem) =>
          /\ stream # <<>>
          /\ stream[Len(stream)] =
                change(changeRemove, lastAdd.before.store[Head(lastAdd.arrival)])
    /\ (Capacity = 2 /\ lastAdd.before.keys = <<1, 2>> /\ lastAdd.item.ID = 3) =>
          /\ lastAdd.removed.ID = 1
          /\ AfterAdd => DOMAIN lq.store = {2, 3}

\* ID 2 came first from the file and was added again by the remote fetcher
\* after ID 1 arrived; the next new ID evicts 2, not 1.
C2_Witness ==
    /\ AfterAdd
    /\ lastAdd.before.keys = <<2, 1>>
    /\ lastAdd.before.store[2].From # itemFromFile
    /\ lastAdd.removed.ID = 2

\* C3: adding an item whose ID is present replaces the stored item by it,
\* leaves every other entry and the keys sequence as they were and returns
\* nothing removed, so that storyLister publishes the added event only; also
\* when the tracker is full.
C3_IdempotentUpdate ==
    (AfterAdd /\ IsUpdate) =>
        /\ lq.store[lastAdd.item.ID] = lastAdd.item
        /\ DOMAIN lq.store = DOMAIN lastAdd.before.store
        /\ \A k \in DOMAIN lq.store \ {lastAdd.item.ID} :
              lq.store[k] = lastAdd.before.store[k]
        /\ lq.keys = lastAdd.before.keys
        /\ lastAdd.removed = NoItem
        /\ removedItemIfAny = NoItem
        /\ pc["lister"] = "sendAdded"

\* A full tracker was given an ID it holds, with another item for it.
C3_Witness ==
    /\ AfterAdd /\ IsUpdate
    /\ Len(lastAdd.before.keys) = Capacity
    /\ lastAdd.before.store[lastAdd.item.ID] # lastAdd.item

\* C4: when an add evicts, the removed event of the evicted item is in the
\* stream before the added event of the ingested item and nothing is between
\* the two; an observer replaying the stream never holds more than Capacity
\* IDs.
C4_RemovalBeforeAddition ==
    /\ (pc["lister"] = "sendAdded" /\ lastAdd.removed # NoItem) =>
          /\ stream # <<>>
          /\ stream[Len(stream)] = change(changeRemove, lastAdd.removed)
    /\ (/\ ListerIdle
        /\ lastAdd.removed # NoItem
        /\ stream # <<>>
        /\ stream[Len(stream)].Action = changeAdd) =>
          stream = <<change(changeRemove, lastAdd.removed),
                     change(changeAdd, lastAdd.item)>>
    /\ Cardinality(observer) <= Capacity

\* Both events of an evicting add are the last two of the stream and the
\* observer is full.
C4_Witness ==
    /\ ListerIdle
    /\ lastAdd.removed # NoItem
    /\ stream = <<change(changeRemove, lastAdd.removed),
                  change(changeAdd, lastAdd.item)>>
    /\ Cardinality(observer) = Capacity

\* C5: a pass of storyRemover that runs to the end visits every item of the
\* tracker and removes exactly those that are not still canonical (section
\* 4.4: matched against the list of their own source) and older than eight
\* hours: a non-canonical item of nine hours goes, one of one hour or of
\* exactly eight hours stays.
C5_ReconciliationStaleness ==
    lastPass.state = "complete" =>
        /\ {v.id : v \in lastPass.seen} = DOMAIN lastPass.before.store
        /\ DOMAIN lastPass.after.store = DOMAIN lastPass.before.store \ Gone(lastPass)
        /\ \A v \in lastPass.seen :
              LET it == lastPass.before.store[v.id]
              IN /\ v.removed <=>
                       (~StillCanonical(it, lastPass) /\ Age(v, it) > eightHrs)
                 /\ (~StillCanonical(it, lastPass) /\ Age(v, it) = 9 * 60 * 60)
                       => v.removed
                 /\ Age(v, it) \in {60 * 60, eightHrs} => ~v.removed
                 /\ ~v.removed => lastPass.after.store[v.id] = it

\* One pass removed a non-canonical item of nine hours and kept a
\* non-canonical younger one.
C5_Witness ==
    /\ lastPass.state = "complete"
    /\ \E v, w \in lastPass.seen :
          /\ v.removed
          /\ Age(v, lastPass.before.store[v.id]) = 9 * 60 * 60
          /\ ~w.removed
          /\ ~StillCanonical(lastPass.before.store[w.id], lastPass)

C7_PartialSweep ==
    /\ \A v \in lastPass.seen : ~v.cancelled
    /\ lastPass.state = "cancelled" =>
          /\ lastPass.err = "nil"
          /\ egErr # "remover"
          /\ lock # "remover"
          /\ pc["remover"] = "done"
          /\ DOMAIN lastPass.after.store =
                DOMAIN lastPass.before.store \ Gone(lastPass)
          /\ \A id \in DOMAIN lastPass.after.store :
                lastPass.after.store[id] = lastPass.before.store[id]
          /\ lastPass.after.keys =
                SelectSeq(lastPass.before.keys, LAMBDA k : k \notin Gone(lastPass))
          /\ DOMAIN lastPass.after.store \ {v.id : v \in lastPass.seen} # {}

\* A pass stopped by the cancellation after it had removed an item, with an
\* item left unvisited.
C7_Witness ==
    /\ lastPass.state = "cancelled"
    /\ Gone(lastPass) # {}
    /\ DOMAIN lastPass.after.store \ {v.id : v \in lastPass.seen} # {}

\* C8 as stated: every goroutine that reads or writes the tracker (storyLister
\* in add, storyRemover in its loop and in remove, the handler while it
\* renders, main while it marshals the store for the dump) holds the lock.
C8_LockDiscipline ==
    /\ pc["lister"] = "add" => lock = "lister"
    /\ pc["remover"] \in {"loop", "send"} => lock = "remover"
    /\ pc["handler"] = "render" => lock = "handler"
    /\ pc["main"] = "dump" => lock = "main"

\* C9 as stated: incomingItems and changeCh are closed once each and no
\* goroutine sends on one of them after it is closed (such a send panics).
C9_ShutdownOrdering ==
    /\ closes["incomingItems"] <= 1
    /\ closes["changeCh"] <= 1
    /\ crashed \notin {"send on closed incomingItems",
                       "storyLister: send on closed changeCh",
                       "storyRemover: send on closed changeCh"}

\* C10 as stated: the Added the tracker stores for an ID is the time the ID
\* was first ingested; ingesting the ID again leaves it as it was.
C10_AddedSetOnce ==
    AfterAdd =>
        lq.store[lastAdd.item.ID].Added =
            IF IsUpdate
            THEN lastAdd.before.store[lastAdd.item.ID].Added
            ELSE Unix(lastAdd.at)

\* The stream after one more event.
Published(c) == IF stream = <<>> THEN <<c>> ELSE <<stream[Len(stream)], c>>

\* What the replay of the stream holds at every point of the two critical
\* sections.
C11_Replay ==
    /\ lock = "none" => observer = DOMAIN lq.store
    /\ lock = "remover" => observer = DOMAIN lq.store
    /\ pc["lister"] = "sendRemoved" => observer = DOMAIN lastAdd.before.store
    /\ pc["lister"] = "sendAdded" =>
          observer = DOMAIN lastAdd.before.store \ {lastAdd.removed.ID}

\* What one step does to the tracker and to the stream.
C11_Step ==
    /\ lq' # lq =>
          \/ /\ pc["lister"] = "add"
             /\ pc'["lister"] = IF lastAdd'.removed # NoItem
                                THEN "sendRemoved" ELSE "sendAdded"
          \/ /\ pc["remover"] = "send" /\ pc'["remover"] # "send"
             /\ lq'.keys = SelectSeq(lq.keys, LAMBDA k : k # rid)
    /\ IF pc["lister"] = "sendRemoved" /\ pc'["lister"] # "sendRemoved"
       THEN /\ stream' = Published(change(changeRemove, lastAdd.removed))
            /\ pc'["lister"] = "sendAdded"
       ELSE IF pc["lister"] = "sendAdded" /\ pc'["lister"] # "sendAdded"
       THEN stream' = Published(change(changeAdd, lastAdd.item))
       ELSE IF pc["remover"] = "send" /\ pc'["remover"] # "send"
       THEN /\ stream' = Published(change(changeRemove, lq.store[rid]))
            /\ rid \notin DOMAIN lq'.store
       ELSE stream' = stream /\ observer' = observer

\* C11: every add of storyLister is followed by one added event, every
\* eviction and every removal of storyRemover by one removed event, no other
\* step publishes, the events come in the order of the mutations, and with
\* the lock free the replay of the events holds exactly the tracker's keys.
C11_FaithfulLog == []C11_Replay /\ [][C11_Step]_vars

\* After an eviction and a removal by storyRemover, with the lock free, the
\* replay holds the keys of a non-empty tracker.
C11_Witness ==
    /\ lock = "none"
    /\ lq.keys # <<>>
    /\ observer = Range(lq.keys)
    /\ lastAdd.removed # NoItem
    /\ lastPass.state = "complete"
    /\ Gone(lastPass) # {}

ExampleCom == <<"example", ".", "com">>

\* C12 as stated: the Domain storyLister derives from
\* https://www.example.com/x and from example.com/x is example.com, from the
\* empty URL it is empty, from a URL whose hostname has two labels or more it
\* is the last two joined by a dot, and deriving it again from the stored URL
\* gives the stored Domain.
C12_DomainNormalization ==
    \A id \in DOMAIN lq.store :
        LET it == lq.store[id]
        IN /\ it.URL = <<"https", "://", "www", ".", "example", ".", "com", "/", "x">>
                 => it.Domain = ExampleCom
           /\ it.URL = <<"example", ".", "com", "/", "x">> => it.Domain = ExampleCom
           /\ it.URL = <<>> => it.Domain = <<>>
           /\ urlToDomain(it.URL).domain = it.Domain

\* The step in which a fetch of storyRemover fails.
C13_FailingFetch == pc["remover"] = "start" /\ lastPass'.state = "failed"

\* C13: when a fetch at the start of a pass fails, storyRemover returns the
\* error to the errgroup without taking the lock, and that step and the rest
\* of the tick leave the tracker and the stream to the other goroutines: the
\* pass visits nothing, removes nothing and publishes nothing.
C13_AbortOnFetchFailure ==
    /\ [](lastPass.state = "failed" =>
            /\ pc["remover"] = "done"
            /\ lock # "remover"
            /\ lastPass.err = "err"
            /\ egErr \in TickTasks
            /\ egCancelled
            /\ lastPass.seen = {}
            /\ rid = 0)
    /\ [][C13_FailingFetch =>
            /\ lq' = lq
            /\ stream' = stream
            /\ observer' = observer
            /\ lock' = lock]_vars
    /\ [][(lastPass.state = "failed" /\ lq' # lq) => pc["lister"] = "add"]_vars
    /\ [][(lastPass.state = "failed" /\ pc["lister"] \notin {"sendRemoved", "sendAdded"})
            => stream' = stream]_vars

\* A pass failed at its fetch on a non-empty tracker and its error is the one
\* the errgroup keeps.
C13_Witness ==
    /\ lastPass.state = "failed"
    /\ lq.keys # <<>>
    /\ egErr = "remover"

\* The ranking when it is not empty, and its part after position i.
FullTop == [i \in 1..Capacity |-> i]
After(i) == SubSeq(FullTop, i + 1, Capacity)

\* What one step of the loop of remote fetcher p does.
C14_Step(p) ==
    /\ (pc[p] = "loop" /\ todo'[p] # todo[p]) =>
          /\ todo'[p] = Tail(todo[p])
          /\ \/ /\ pc'[p] = "send"
                /\ cur'[p] = fetchItem(Head(todo[p]))
                /\ item' = item
             \/ /\ pc'[p] = "loop"
                /\ item' = item
                /\ pc'["lister"] = pc["lister"]
    /\ (pc[p] = "send" /\ pc'[p] # "send") =>
          /\ pc'[p] = "loop"
          /\ item' = cur[p]
          /\ pc["lister"] = "recv" /\ pc'["lister"] = "lock"
    /\ (pc[p] \in {"loop", "send"} /\ pc'[p] # pc[p]) => egErr' = egErr

\* C14: in a run of topStoriesFetcher over the ranking, an item whose fetch
\* fails is skipped with nothing sent and the run goes on; an item whose fetch
\* succeeds is sent to storyLister before the next one is fetched, so the
\* items go out in list order; the run ends with the list used up and
\* returns nil.
C14_FailureIsolation ==
    /\ [](\A p \in HNFetchers :
            /\ pc[p] = "send" =>
                  /\ cur[p].ID \in 1..Capacity
                  /\ cur[p] = fetchItem(cur[p].ID)
                  /\ todo[p] = After(cur[p].ID)
            /\ pc[p] = "loop" => \E i \in 0..Capacity : todo[p] = After(i)
            /\ pc[p] = "done" => todo[p] = <<>>)
    /\ [][\A p \in HNFetchers : C14_Step(p)]_vars

\* The fetch of ID 1 failed, nothing was sent for it, and the fetcher is
\* sending ID 2.
C14_Witness ==
    /\ pc["hn0"] = "send"
    /\ cur["hn0"].ID = 2
    /\ lastAdd = NoAdd
    /\ pc["lister"] = "recv"
    /\ pc["file0"] = "start"

\* What a step may do once the context of the goroutine taking it is
\* cancelled.
C15_Step ==
    /\ \A p \in Fetchers :
          (pc[p] = "loop" /\ todo'[p] # todo[p]) => ~CtxErr(p)
    /\ \A p \in HNFetchers :
          (pc[p] = "loop" /\ pc'[p] = "done") => egErr' = egErr
    /\ (pc["remover"] = "loop" /\ visited' # visited /\ visited' # {})
          => ~CtxErr("remover")

\* C15 as stated: once its context is cancelled (appCtx by cancel(), or the
\* errgroup's context by a failing task of the tick), topStoriesFetcher
\* fetches no further item and returns nil, serverInputsToUserFetcher sends
\* no further item and storyRemover visits no further item.
C15_CooperativeCancellation == [][C15_Step]_vars

\* What the steps of the ticker goroutine and of the errgroup do.
C16_Step ==
    /\ (pc["ticker"] = "wait" /\ pc'["ticker"] # "wait") =>
          /\ pc'["ticker"] = "egwait"
          /\ \A p \in TickTasks : pc[p] = "idle" /\ pc'[p] = "start"
    /\ (pc["ticker"] = "egwait" /\ pc'["ticker"] # "egwait") =>
          /\ \A p \in TickTasks : pc[p] = "done"
          /\ pc'["ticker"] = IF egErr # "nil" THEN "report" ELSE "wait"
    /\ (pc["ticker"] = "egwait" /\ egErr # "nil") => egErr' = egErr
    /\ errs' # errs =>
          /\ pc["ticker"] = "report" /\ pc'["ticker"] = "wait"
          /\ egErr \in TickTasks
          /\ errs' = Append(errs, egErr)

C17_CoreRuns ==
    /\ crashed = ""
    /\ ~stopped
    /\ pc["ticker"] \in {"wait", "egwait", "report"}
    /\ pc["lister"] \in {"recv", "lock", "add", "sendRemoved", "sendAdded"}
    /\ pc["ticker"] = "report" => ~errClosed

\* The ticker goroutine is never stuck where it stands: a pending tick is
\* taken, a finished group is collected, an error is handed to errLogger.
C17_TickerCanStep ==
    /\ (pc["ticker"] = "wait" /\ tickBuf) => ENABLED tickerStart
    /\ (pc["ticker"] = "egwait" /\ egWaitDone) => ENABLED tickerWait
    /\ pc["ticker"] = "report" => ENABLED tickerReport
    /\ (~tickBuf /\ now >= nextTick) => ENABLED intervalTickerFire

\* A task of the tick that returns, with an error or without, changes the
\* position of no other goroutine; the ticker goroutine leaves its report
\* for the next wait; and taking a tick starts the three tasks, whatever the
\* ticks before it reported.
C17_Step ==
    /\ \A p \in TickTasks :
          (pc[p] # "done" /\ pc'[p] = "done") =>
              \A q \in Procs \ {p} : pc'[q] = pc[q]
    /\ (pc["ticker"] = "report" /\ pc'["ticker"] # "report") =>
          /\ pc'["ticker"] = "wait"
          /\ Len(errs') = Len(errs) + 1
    /\ (pc["ticker"] = "wait" /\ pc'["ticker"] # "wait") =>
          \A p \in TickTasks : pc'[p] = "start"

\* C17: whatever fails in a tick, the ticker goroutine and storyLister go on:
\* no goroutine of the core stops, the tick ends, the error (if any) is
\* handed to errLogger, the ticker goroutine waits for the next tick, and
\* the next tick starts the three tasks again.
C17_RetryByRecurrence ==
    /\ [](C17_CoreRuns /\ C17_TickerCanStep)
    /\ [][C17_Step]_vars

\* A tick has failed and was reported, and the next tick has started the
\* three tasks.
C17_Witness ==
    /\ errs # <<>>
    /\ pc["ticker"] = "egwait"
    /\ \A p \in TickTasks : pc[p] = "start"

\* storyLister has received the item with this ID from incomingItems.
C18_Received(id) == pc["lister"] = "lock" /\ item.ID = id

\* storyLister has added the item with this ID, has published the added
\* event for it and is back at its receive.
C18_Applied(id) ==
    /\ pc["lister"] = "recv"
    /\ lastAdd.item.ID = id
    /\ stream # <<>>
    /\ stream[Len(stream)] = change(changeAdd, lastAdd.item)

\* storyLister is over: it left its loop, or the process ended around it.
C18_Stopped == pc["lister"] = "done" \/ ~Running

\* storyLister takes an item only from an open incomingItems and is over
\* only after the channel was closed.
C18_Step ==
    /\ (pc["lister"] = "recv" /\ pc'["lister"] = "lock") => ~incomingClosed
    /\ C18_Stopped' => incomingClosed'

C19_InPass == pc["remover"] \in {"loop", "send"}

\* All through a pass storyRemover holds the lock, storyLister is outside
\* its own critical section, and the tracker is what it was when the pass
\* began less the items the pass removed: same order, same items.
C19_Exclusion ==
    C19_InPass =>
        /\ lock = "remover"
        /\ lastPass.state = "sweeping"
        /\ pc["lister"] \in {"recv", "lock"}
        /\ lq.keys = SelectSeq(lastPass.before.keys,
                               LAMBDA k : k \in DOMAIN lq.store)
        /\ \A id \in DOMAIN lq.store : lq.store[id] = lastPass.before.store[id]

\* What a finished pass leaves: the keys from before without the removed
\* ones, in the same order, and the surviving items as they were.
C19_OnlyRemoves ==
    lastPass.state \in {"complete", "cancelled"} =>
        /\ lastPass.after.keys =
              SelectSeq(lastPass.before.keys, LAMBDA k : k \notin Gone(lastPass))
        /\ \A id \in DOMAIN lastPass.after.store :
              lastPass.after.store[id] = lastPass.before.store[id]

\* A step taken during a pass: no add takes effect, and the only event
\* published is storyRemover's removed event for the item it removes.
C19_Step ==
    C19_InPass =>
        /\ lastAdd' = lastAdd
        /\ pc'["lister"] \in {"recv", "lock"}
        /\ stream' # stream =>
              /\ pc["remover"] = "send"
              /\ stream' = Published(change(changeRemove, lq.store[rid]))
        /\ lq' # lq =>
              /\ pc["remover"] = "send"
              /\ lq'.keys = SelectSeq(lq.keys, LAMBDA k : k # rid)

\* C19: from app.Lock() to the return of storyRemover no add of storyLister
\* takes effect and storyLister publishes nothing, so the removed events of
\* one pass follow each other in the stream, and the pass only removes: the
\* keys after it are the keys before it without the removed ones, in the
\* same order, and the surviving items are unchanged.
C19_OneCriticalSection ==
    /\ [](C19_Exclusion /\ C19_OnlyRemoves)
    /\ [][C19_Step]_vars

\* A pass has removed two items, its two removed events are the last two of
\* the stream, and storyLister has waited for the lock with an item received
\* meanwhile.
C19_Witness ==
    /\ lastPass.state = "complete"
    /\ Cardinality(Gone(lastPass)) = 2
    /\ Len(stream) = 2
    /\ \A i \in 1..2 : /\ stream[i].Action = changeRemove
                        /\ stream[i].Item.ID \in Gone(lastPass)
    /\ stream[1].Item.ID # stream[2].Item.ID
    /\ pc["lister"] = "lock"

\* Some goroutine is in the middle of its work: not finished, not waiting
\* for the next tick, the next item or the next request.
C20_Busy ==
    \/ \E p \in Fetchers \cup {"remover"} : pc[p] \notin {"idle", "done"}
    \/ pc["lister"] # "recv"
    \/ pc["ticker"] # "wait"
    \/ pc["handler"] # "idle"
    \/ tickBuf

\* A step of a goroutine already at work (the arrival of a request is not
\* one).
C20_Work == Fetch \/ Ingest \/ Reconcile \/ Schedule \/ handlerRender

\* While any goroutine is at work some goroutine can take a step; the
\* holder of the lock can always take its next step, a free lock can be
\* taken by storyLister waiting for it, and a fetcher at its send gets
\* through to a storyLister at its receive.
C20_NoneBlocked ==
    /\ C20_Busy => ENABLED C20_Work
    /\ lock = "lister" => ENABLED Ingest
    /\ lock = "remover" => ENABLED Reconcile
    /\ lock = "handler" => ENABLED handlerRender
    /\ (pc["lister"] = "lock" /\ lock = "none") => ENABLED storyListerLock
    /\ \A p \in HNFetchers :
          (pc[p] = "send" /\ pc["lister"] = "recv") =>
              ENABLED topStoriesFetcherSend(p)
    /\ \A p \in FileFetchers :
          (pc[p] = "send" /\ pc["lister"] = "recv") =>
              ENABLED serverInputsToUserFetcherSend(p)

\* C20: before the shutdown signal there is no state in which goroutines
\* are at work and none of them can take a step, and the lock, whoever
\* holds it (storyLister, storyRemover, the handler), is released again.
C20_NoDeadlock ==
    /\ []C20_NoneBlocked
    /\ \A h \in {"lister", "remover", "handler"} : (lock = h) ~> (lock # h)

\* The longest chain of waiting: storyRemover holds the lock at its send on
\* changeCh, storyLister waits for the lock with an item received, a fetcher
\* waits at its send on incomingItems and the ticker goroutine waits for the
\* group.
C20_Witness ==
    /\ lock = "remover"
    /\ pc["remover"] = "send"
    /\ pc["lister"] = "lock"
    /\ \E p \in Fetchers : pc[p] = "send"
    /\ pc["ticker"] = "egwait"
====
